---- MODULE Spec2Model ----
(***************************************************************************)
(* Model of src/app.py (NextChapter): the cached remote completion client  *)
(* get_recommendations with its retry loop, the response extractor         *)
(* extract_json, the graph builder visualize_network with                  *)
(* create_tooltip_text, and the main execution block.                      *)
(***************************************************************************)
EXTENDS Integers, Sequences, FiniteSets, TLC

\* ------------------------------------------------------------------------
\* Bounds of the model
\* ------------------------------------------------------------------------
MaxRuns == 2
MaxTicks == 2
ClockStep == 1800
MaxNodes == 1
MaxEdges == 2
MaxLen == 4
MaxProse == 1

\* ------------------------------------------------------------------------
\* Program constants
\* ------------------------------------------------------------------------
max_retries == 3
\* Variant: the first two delays in the wrong order.
retry_delays_Reordered == <<5, 2, 10>>
retry_delays == <<2, 5, 10>>
TTL == 3600
SeedSize == 50
Level2Size == 25
RecommendedSize == 35

\* ------------------------------------------------------------------------
\* JSON-like values handled by the pipeline
\* ------------------------------------------------------------------------
\* A key that a mapping does not carry (dict.get returns None for it).
Absent == "<absent>"

\* Python truthiness of a field value: None and "" are falsy.
Truthy(v) == v # Absent /\ v # ""

\* str(v) of a field value: str(None) is "None".
Str(v) == IF v = Absent THEN "None" ELSE v

\* A raw node entry: a mapping with optional keys, or a non-mapping entry.
NodeEntry(i, t, g, a, r, s) ==
    [isMap |-> TRUE, id |-> i, title |-> t, group |-> g,
     author |-> a, reason |-> r, summary |-> s]
ScalarNode == [isMap |-> FALSE, id |-> Absent, title |-> Absent, group |-> Absent,
               author |-> Absent, reason |-> Absent, summary |-> Absent]

\* A raw edge entry: a mapping with optional keys, or a non-mapping entry.
EdgeEntry(s, t, l) == [isMap |-> TRUE, source |-> s, target |-> t, label |-> l]
ScalarEdge == [isMap |-> FALSE, source |-> Absent, target |-> Absent, label |-> Absent]

\* A value extract_json can return: None, a scalar, a list, or a mapping.
NoneV == [kind |-> "none", truthy |-> FALSE, hasNodes |-> FALSE, nodes |-> <<>>,
          hasEdges |-> FALSE, edges |-> <<>>, extra |-> FALSE]
ScalarV(b) == [kind |-> "scalar", truthy |-> b, hasNodes |-> FALSE, nodes |-> <<>>,
               hasEdges |-> FALSE, edges |-> <<>>, extra |-> FALSE]
ListV(items) == [kind |-> "list", truthy |-> items # <<>>, hasNodes |-> FALSE,
                 nodes |-> items, hasEdges |-> FALSE, edges |-> <<>>, extra |-> FALSE]
DictV(hn, ns, he, es, x) ==
    [kind |-> "dict", truthy |-> (hn \/ he \/ x), hasNodes |-> hn, nodes |-> ns,
     hasEdges |-> he, edges |-> es, extra |-> x]

\* ------------------------------------------------------------------------
\* create_tooltip_text (src/app.py 68-86)
\* ------------------------------------------------------------------------
\* dict.get(key, default): the default only replaces a missing key.
GetDefault(v, d) == IF v = Absent THEN d ELSE v

Badge(group) ==
    IF group = "Seed" THEN "Your Input Book"
    ELSE IF group = "Level2" THEN "Deep Recommendation"
    ELSE "Recommended Book"

\* The tooltip is the f-string's five slots, in the order they are laid out.
create_tooltip_text(node_data) ==
    LET book_title == IF Truthy(node_data.title) THEN node_data.title
                      ELSE IF Truthy(node_data.id) THEN node_data.id
                      ELSE "Untitled"
        author  == GetDefault(node_data.author, "Unknown Author")
        reason  == GetDefault(node_data.reason, "No recommendation reason provided.")
        summary == GetDefault(node_data.summary, "No summary available.")
        group   == GetDefault(node_data.group, "Recommended")
    IN  <<Badge(group), book_title, author, reason, summary>>

\* ------------------------------------------------------------------------
\* visualize_network (src/app.py 194-348)
\* ------------------------------------------------------------------------
\* Variant: the sizes of Level2 and of the default tier exchanged.
GroupSize_Exchanged(group) ==
    IF group = "Seed" THEN SeedSize
    ELSE IF group = "Level2" THEN RecommendedSize
    ELSE Level2Size

GroupSize(group) ==
    IF group = "Seed" THEN SeedSize
    ELSE IF group = "Level2" THEN Level2Size
    ELSE RecommendedSize

GroupColor(group) ==
    IF group = "Seed" THEN "#FF6B6B"
    ELSE IF group = "Level2" THEN "#FFD93D"
    ELSE "#4ECDC4"

\* Body of the node loop: the arguments of net.add_node for one raw entry.
AddNode(node) ==
    LET raw_id     == node.id
        node_label == IF Truthy(node.title) THEN node.title ELSE Str(raw_id)
        node_id    == IF Truthy(raw_id) THEN raw_id ELSE node_label
        stored     == [node EXCEPT !.id = node_id]
        group      == GetDefault(node.group, "Recommended")
    IN  [id |-> node_id, label |-> node_label, title |-> create_tooltip_text(stored),
         color |-> GroupColor(group), size |-> GroupSize(group)]

\* Variant: an entry is kept as soon as it has a source.
KeepEdge_SourceOnly(edge) == Truthy(edge.source)

\* Guard of the edge loop.
KeepEdge(edge) == Truthy(edge.source) /\ Truthy(edge.target)

\* Body of the edge loop: the arguments of net.add_edge for one kept entry.
AddEdge(edge) ==
    LET label == GetDefault(edge.label, "Related")
    IN  [source |-> edge.source, target |-> edge.target, label |-> label, title |-> label]

\* Entries a loop processes before entry.get raises on a non-mapping entry.
FirstBad(entries) ==
    IF \E i \in 1..Len(entries) : ~entries[i].isMap
    THEN CHOOSE i \in 1..Len(entries) :
            ~entries[i].isMap /\ \A j \in 1..(i-1) : entries[j].isMap
    ELSE Len(entries) + 1

Processed(entries) == SubSeq(entries, 1, FirstBad(entries) - 1)

\* The add_node / add_edge calls made for a run of entries, in order.
AddNodes(entries) == [i \in 1..Len(entries) |-> AddNode(entries[i])]
AddEdges(entries) == [i \in 1..Len(entries) |-> AddEdge(entries[i])]

\* Variant: without the bare-sequence path of line 197.
Accepted_MappingOnly(data) == data.kind = "dict" /\ data.hasNodes

\* Shape test of lines 197-200: the mapping the loops will read, if any.
Accepted(data) ==
    data.kind = "list" \/ (data.kind = "dict" /\ data.hasNodes)

\* visualize_network(data); saveOk says whether writing and reading back the
\* scratch document succeeds.  raised: an exception of this function's own
\* code leaves it; html: a document is returned (else None); nodes, edges:
\* what was handed to the renderer by add_node / add_edge.  The renderer is
\* a recorder of these calls: its own validation is not part of the model.
visualize_network(data, saveOk) ==
    LET raw_nodes == data.nodes
        raw_edges == IF data.kind = "list" THEN <<>> ELSE data.edges
        nodesRaise == FirstBad(raw_nodes) <= Len(raw_nodes)
        edgesRaise == FirstBad(raw_edges) <= Len(raw_edges)
    IN  IF ~Accepted(data)
        THEN [raised |-> FALSE, html |-> FALSE, nodes |-> <<>>, edges |-> <<>>]
        ELSE IF nodesRaise
        THEN [raised |-> TRUE, html |-> FALSE,
              nodes |-> AddNodes(Processed(raw_nodes)), edges |-> <<>>]
        ELSE [raised |-> edgesRaise, html |-> (~edgesRaise /\ saveOk),
              nodes |-> AddNodes(raw_nodes),
              edges |-> AddEdges(SelectSeq(Processed(raw_edges), KeepEdge))]

\* ------------------------------------------------------------------------
\* Result display of the main execution block (src/app.py 375-386)
\* ------------------------------------------------------------------------
\* Variant: the display without the zero-edges test of line 376.
MainDisplay_NoEdgeTest(data, saveOk) ==
    IF ~data.truthy
    THEN [outcome |-> "no_response", vizCalled |-> FALSE]
    ELSE IF data.kind # "dict"
    THEN [outcome |-> "exception", vizCalled |-> FALSE]
    ELSE LET v == visualize_network(data, saveOk)
         IN  IF v.raised THEN [outcome |-> "exception", vizCalled |-> TRUE]
             ELSE IF v.html THEN [outcome |-> "rendered", vizCalled |-> TRUE]
             ELSE [outcome |-> "viz_failed", vizCalled |-> TRUE]

\* outcome: what the run ends in; vizCalled: visualize_network was invoked.
MainDisplay(data, saveOk) ==
    IF ~data.truthy
    THEN [outcome |-> "no_response", vizCalled |-> FALSE]
    ELSE IF data.kind # "dict"
    THEN [outcome |-> "exception", vizCalled |-> FALSE]
    ELSE IF ~data.hasEdges \/ data.edges = <<>>
    THEN [outcome |-> "no_connections", vizCalled |-> FALSE]
    ELSE LET v == visualize_network(data, saveOk)
         IN  IF v.raised THEN [outcome |-> "exception", vizCalled |-> TRUE]
             ELSE IF v.html THEN [outcome |-> "rendered", vizCalled |-> TRUE]
             ELSE [outcome |-> "viz_failed", vizCalled |-> TRUE]

\* ------------------------------------------------------------------------
\* State
\* ------------------------------------------------------------------------
VARIABLES
    pc,        \* position of the script / of the function under analysis
    now,       \* wall clock, seconds
    cache,     \* entries of st.cache_data around get_recommendations
    runs,      \* analysis runs started so far
    books,     \* [book1, book2, book3] of the current run
    attempt,   \* loop variable of the retry loop
    requests,  \* requests.post calls of the current invocation
    outcomes,  \* how each of those requests was answered, in order
    waits,     \* time.sleep calls of the current invocation, in order
    msgs,      \* st.error calls made inside get_recommendations
    data,      \* value returned by get_recommendations / fed to the pipeline
    saveOk,    \* whether the scratch document can be written and read back
    shown,     \* what the result display ended in
    viz,       \* what visualize_network returned and handed to the renderer
    hist,      \* completed get_recommendations invocations, oldest first
    text,      \* argument of extract_json
    parsed     \* return value of extract_json

vars == <<pc, now, cache, runs, books, attempt, requests, outcomes, waits, msgs, data,
          saveOk, shown, viz, hist, text, parsed>>

NoShown == [outcome |-> "none", vizCalled |-> FALSE]
NoViz == [raised |-> FALSE, html |-> FALSE, nodes |-> <<>>, edges |-> <<>>]
NoParse == [raised |-> FALSE, found |-> FALSE, val |-> [t |-> "num", n |-> 0, s |-> <<>>, keys |-> <<>>, items |-> <<>>]]

\* ------------------------------------------------------------------------
\* The application: sidebar input, cached get_recommendations, display
\* ------------------------------------------------------------------------
\* Ordered title triples the user can enter (all three titles non-empty).
Triples == {<<"x", "y", "y">>, <<"y", "x", "y">>}

NodeA == NodeEntry("A", "A", "Seed", Absent, Absent, Absent)
NodeB == NodeEntry("B", "B", Absent, Absent, Absent, Absent)
GraphOK == DictV(TRUE, <<NodeA, NodeB>>, TRUE, <<EdgeEntry("A", "B", "L")>>, FALSE)

\* Values extract_json hands back to get_recommendations in this specification.
AppPayloads == {NoneV, GraphOK, ListV(<<NodeA>>)}

\* Variant: a key that forgets the order of the titles.
CacheKey_Unordered(b) == {b[i] : i \in 1..Len(b)}

\* st.cache_data keys an entry by the value of the argument list.
CacheKey(b) == b

\* An entry is served while it is younger than ttl.
Fresh(entry, t) == t - entry.stored < TTL

Hit(b, t) == {e \in cache : e.key = CacheKey(b) /\ Fresh(e, t)}

Store(b, v, t) ==
    {e \in cache : e.key # CacheKey(b)} \cup {[key |-> CacheKey(b), value |-> v, stored |-> t]}

\* Line 369 reached with the button pressed and three titles entered: the
\* cached function is called; a fresh entry answers without running the body.
Analyze(b) ==
    /\ pc \in {"idle", "done"}
    /\ runs < MaxRuns
    /\ runs' = runs + 1
    /\ books' = b
    /\ requests' = 0
    /\ outcomes' = <<>>
    /\ waits' = <<>>
    /\ msgs' = <<>>
    /\ attempt' = 0
    /\ shown' = NoShown
    /\ IF Hit(b, now) # {}
       THEN /\ data' = (CHOOSE e \in Hit(b, now) : TRUE).value
            /\ pc' = "display"
            /\ hist' = Append(hist, [books |-> b, at |-> now, done |-> now, requests |-> 0,
                                     data |-> (CHOOSE e \in Hit(b, now) : TRUE).value])
       ELSE /\ data' = NoneV
            /\ pc' = "request"
            /\ hist' = hist
    /\ UNCHANGED <<now, cache, saveOk, viz, text, parsed>>

\* get_recommendations returns v at time t: the wrapper stores the value.
Return(v, t) ==
    /\ data' = v
    /\ cache' = Store(books, v, t)
    /\ hist' = Append(hist, [books |-> books, at |-> now, done |-> t,
                             requests |-> requests + 1, data |-> v])
    /\ pc' = "display"

\* Variant: the except branch giving up one attempt too late.
Except_OneMore(e) ==
    IF attempt < max_retries
    THEN /\ waits' = Append(waits, retry_delays[attempt + 1])
         /\ now' = now + retry_delays[attempt + 1]
         /\ attempt' = attempt + 1
         /\ UNCHANGED <<msgs, data, cache, hist, pc>>
    ELSE /\ msgs' = Append(msgs, [kind |-> "communication_error", detail |-> e])
         /\ Return(NoneV, now)
         /\ UNCHANGED <<waits, now, attempt>>

\* The except branch of lines 183-189 for an exception of kind e.
Except(e) ==
    IF attempt < max_retries - 1
    THEN /\ waits' = Append(waits, retry_delays[attempt + 1])
         /\ now' = now + retry_delays[attempt + 1]
         /\ attempt' = attempt + 1
         /\ UNCHANGED <<msgs, data, cache, hist, pc>>
    ELSE /\ msgs' = Append(msgs, [kind |-> "communication_error", detail |-> e])
         /\ Return(NoneV, now)
         /\ UNCHANGED <<waits, now, attempt>>

\* Variant: a 429 handled like any other error status.
AttemptRateLimited_Retried ==
    /\ pc = "request"
    /\ requests' = requests + 1
    /\ outcomes' = Append(outcomes, "429")
    /\ Except("429")
    /\ UNCHANGED <<runs, books, saveOk, shown, viz, text, parsed>>

\* One pass of the loop body whose request is answered with status 429.
AttemptRateLimited ==
    /\ pc = "request"
    /\ requests' = requests + 1
    /\ outcomes' = Append(outcomes, "429")
    /\ msgs' = Append(msgs, [kind |-> "rate_limit", detail |-> "429"])
    /\ Return(NoneV, now)
    /\ UNCHANGED <<now, runs, books, attempt, waits, saveOk, shown, viz, text, parsed>>

\* One pass answered with status 503: slept over while attempts remain,
\* otherwise raise_for_status raises into the except branch.
AttemptUnavailable ==
    /\ pc = "request"
    /\ requests' = requests + 1
    /\ outcomes' = Append(outcomes, "503")
    /\ IF attempt < max_retries - 1
       THEN /\ waits' = Append(waits, retry_delays[attempt + 1])
            /\ now' = now + retry_delays[attempt + 1]
            /\ attempt' = attempt + 1
            /\ UNCHANGED <<msgs, data, cache, hist, pc>>
       ELSE Except("503")
    /\ UNCHANGED <<runs, books, saveOk, shown, viz, text, parsed>>

\* One pass that raises: requests.post fails or times out ("transport"),
\* raise_for_status rejects another error status ("http_error"), or the
\* body is not the expected envelope ("bad_body").
AttemptRaises(e) ==
    /\ pc = "request"
    /\ requests' = requests + 1
    /\ outcomes' = Append(outcomes, e)
    /\ Except(e)
    /\ UNCHANGED <<runs, books, saveOk, shown, viz, text, parsed>>

\* One pass answered with a success status and no candidates.
AttemptEmpty ==
    /\ pc = "request"
    /\ requests' = requests + 1
    /\ outcomes' = Append(outcomes, "empty")
    /\ Return(NoneV, now)
    /\ UNCHANGED <<now, runs, books, attempt, waits, msgs, saveOk, shown, viz, text, parsed>>

\* One pass answered with a candidate whose text extract_json turns into p.
AttemptSuccess(p) ==
    /\ pc = "request"
    /\ requests' = requests + 1
    /\ outcomes' = Append(outcomes, "ok")
    /\ Return(p, now)
    /\ UNCHANGED <<now, runs, books, attempt, waits, msgs, saveOk, shown, viz, text, parsed>>

\* Lines 375-386.
Display(s) ==
    /\ pc = "display"
    /\ shown' = MainDisplay(data, s)
    /\ pc' = "done"
    /\ UNCHANGED <<now, cache, runs, books, attempt, requests, outcomes, waits, msgs, data,
                   saveOk, viz, hist, text, parsed>>

\* Time passes between two runs.
Tick ==
    /\ pc \in {"idle", "done"}
    /\ now \div ClockStep < MaxTicks
    /\ now' = now + ClockStep
    /\ UNCHANGED <<pc, cache, runs, books, attempt, requests, outcomes, waits, msgs, data,
                   saveOk, shown, viz, hist, text, parsed>>

Init ==
    /\ pc = "idle"
    /\ now = 0
    /\ cache = {}
    /\ runs = 0
    /\ books = <<"x", "y", "y">>
    /\ attempt = 0
    /\ requests = 0
    /\ outcomes = <<>>
    /\ waits = <<>>
    /\ msgs = <<>>
    /\ data = NoneV
    /\ saveOk = TRUE
    /\ shown = NoShown
    /\ viz = NoViz
    /\ hist = <<>>
    /\ text = <<>>
    /\ parsed = NoParse

Next ==
    \/ \E b \in Triples : Analyze(b)
    \/ AttemptRateLimited
    \/ AttemptUnavailable
    \/ \E e \in {"transport", "http_error", "bad_body"} : AttemptRaises(e)
    \/ AttemptEmpty
    \/ \E p \in AppPayloads : AttemptSuccess(p)
    \/ \E s \in BOOLEAN : Display(s)
    \/ Tick

Spec == Init /\ [][Next]_vars

\* ------------------------------------------------------------------------
\* One invocation of get_recommendations on its own
\* ------------------------------------------------------------------------
ClientInit ==
    /\ pc = "request"
    /\ now \in {0, ClockStep}
    /\ cache = {}
    /\ runs = 1
    /\ books \in Triples
    /\ attempt = 0
    /\ requests = 0
    /\ outcomes = <<>>
    /\ waits = <<>>
    /\ msgs = <<>>
    /\ data = NoneV
    /\ saveOk = TRUE
    /\ shown = NoShown
    /\ viz = NoViz
    /\ hist = <<>>
    /\ text = <<>>
    /\ parsed = NoParse

ClientNext ==
    \/ AttemptRateLimited
    \/ AttemptUnavailable
    \/ \E e \in {"transport", "http_error", "bad_body"} : AttemptRaises(e)
    \/ AttemptEmpty
    \/ \E p \in AppPayloads : AttemptSuccess(p)
    \/ \E s \in BOOLEAN : Display(s)

\* requests.post carries timeout=60 and time.sleep returns, so a pending
\* pass of the loop is always taken.
SpecClient == ClientInit /\ [][ClientNext]_vars /\ WF_vars(ClientNext)

RateLimitMsg == [kind |-> "rate_limit", detail |-> "429"]
CommMsg(e) == [kind |-> "communication_error", detail |-> e]
Ended == pc \in {"display", "done"}

\* C1: a request answered with 429 is the last request of the invocation:
\* the invocation has ended with no data and the rate-limit message, no
\* wait was made after that response, and a 429 on the first attempt means
\* one request in total.
C1_RateLimitEndsInvocation ==
    \A i \in 1..Len(outcomes) :
        outcomes[i] = "429" =>
            /\ i = Len(outcomes)
            /\ requests = i
            /\ Ended
            /\ data = NoneV
            /\ msgs = <<RateLimitMsg>>
            /\ Len(waits) = i - 1

C1_Witness ==
    /\ pc = "done"
    /\ outcomes = <<"429">>
    /\ requests = 1

AllUnavailable == outcomes # <<>> /\ \A i \in 1..Len(outcomes) : outcomes[i] = "503"

\* C2: when every request is answered with 503, 3 requests are sent, the
\* waits are 2s before the 2nd and 5s before the 3rd request (strictly
\* increasing), and the invocation ends with no data and the
\* communication-error message.
C2_UnavailableBackoff ==
    AllUnavailable =>
        /\ requests = Len(outcomes)
        /\ requests <= 3
        /\ waits = SubSeq(<<2, 5>>, 1, IF requests < 3 THEN requests ELSE 2)
        /\ \A i \in 1..(Len(waits) - 1) : waits[i] < waits[i + 1]
        /\ (requests < 3 => pc = "request")
        /\ (requests = 3 => Ended /\ data = NoneV /\ msgs = <<CommMsg("503")>>)

C2_Witness ==
    /\ pc = "done"
    /\ outcomes = <<"503", "503", "503">>
    /\ waits = <<2, 5>>

Failures == {"429", "503", "transport", "http_error", "bad_body"}

C3_Bounded ==
    /\ requests = Len(outcomes)
    /\ requests <= 3
    /\ \A i \in 1..Len(outcomes) :
          (outcomes[i] \in Failures \ {"429"} /\ i < 3) =>
              /\ Len(waits) >= i
              /\ waits[i] = <<2, 5>>[i]
              /\ (i = Len(outcomes) => pc = "request")

\* C3 as stated: a failing 3rd attempt always ends in the communication
\* failure carrying the error detail.
C3_AsStated ==
    /\ C3_Bounded
    /\ (Len(outcomes) = 3 /\ outcomes[3] \in Failures) =>
          /\ Ended
          /\ data = NoneV
          /\ msgs = <<CommMsg(outcomes[3])>>

\* C3 (amended): for every sequence of request outcomes an invocation sends
\* at most 3 requests and terminates; every failed attempt other than a 429
\* is followed by its backoff wait and a new request while attempts remain;
\* when the 3rd attempt fails other than with a 429 the invocation ends with
\* the communication failure carrying that error's detail.
C3_RetryBudget ==
    /\ [](/\ C3_Bounded
          /\ (Len(outcomes) = 3 /\ outcomes[3] \in Failures \ {"429"}) =>
                /\ Ended
                /\ data = NoneV
                /\ msgs = <<CommMsg(outcomes[3])>>)
    /\ ((pc = "request") ~> (pc = "done"))

C3_Witness ==
    /\ pc = "done"
    /\ outcomes = <<"transport", "http_error", "bad_body">>
    /\ msgs = <<CommMsg("bad_body")>>

\* ------------------------------------------------------------------------
\* The result cache
\* ------------------------------------------------------------------------
\* Invocation j was answered from the entry invocation i left behind.
Executed(h) == h.requests > 0

\* C6: after an executed invocation for a triple has completed, a later
\* invocation for the same ordered triple less than 3600 seconds later sends
\* no request and yields the stored result; an invocation that sends no
\* request got its result from an executed invocation for the same ordered
\* triple completed less than 3600 seconds before it.
C6_CacheKeyedByOrderedTriple ==
    /\ \A i \in 1..Len(hist) : \A j \in (i + 1)..Len(hist) :
          (/\ Executed(hist[i])
           /\ hist[j].books = hist[i].books
           /\ hist[j].at - hist[i].done < 3600) =>
              /\ hist[j].requests = 0
              /\ hist[j].data = hist[i].data
    /\ \A j \in 1..Len(hist) :
          ~Executed(hist[j]) =>
              \E i \in 1..(j - 1) :
                  /\ Executed(hist[i])
                  /\ hist[i].books = hist[j].books
                  /\ hist[j].at - hist[i].done < 3600
                  /\ hist[j].data = hist[i].data

C6_Witness ==
    /\ Len(hist) = 2
    /\ Executed(hist[1])
    /\ ~Executed(hist[2])
    /\ hist[2].at > hist[1].done

\* ------------------------------------------------------------------------
\* The pipeline behind the response: visualize_network and the display
\* ------------------------------------------------------------------------
Ids == {Absent, "", "A"}
Titles == {Absent, "", "T"}
Groups == {Absent, "Seed", "Level2", "Recommended", "Other"}
Ends == {Absent, "", "A", "Z"}

NodeEntries ==
    {NodeEntry(i, t, g, Absent, Absent, Absent) : i \in Ids, t \in Titles, g \in Groups}
    \cup {NodeEntry("A", "T", g, a, r, s) :
            g \in Groups, a \in {Absent, "Au"}, r \in {Absent, "Re"}, s \in {Absent, "Su"}}
    \cup {ScalarNode}

EdgeEntries ==
    {EdgeEntry(s, t, l) : s \in Ends, t \in Ends, l \in {Absent, "L"}} \cup {ScalarEdge}

NodeOnlyId == NodeEntry("A", Absent, Absent, Absent, Absent, Absent)

FewNodeLists == {<<>>, <<NodeOnlyId>>, <<ScalarNode>>}
FewEdgeLists == {<<>>, <<EdgeEntry("A", "A", "L")>>, <<EdgeEntry("A", Absent, Absent)>>,
                 <<EdgeEntry("A", "Z", Absent)>>, <<ScalarEdge>>}

\* Values the pipeline can be handed: absent, scalars, bare sequences,
\* mappings with or without nodes / edges / other keys.
IsPipelineValue(d) ==
    \/ d \in {NoneV, ScalarV(TRUE), ScalarV(FALSE)}
    \/ \E k \in 0..MaxNodes : \E ns \in [1..k -> NodeEntries] :
          \/ d = ListV(ns)
          \/ \E es \in FewEdgeLists : d = DictV(TRUE, ns, TRUE, es, FALSE)
    \/ \E k \in 0..MaxEdges : \E es \in [1..k -> EdgeEntries] :
          d = DictV(TRUE, <<NodeOnlyId>>, TRUE, es, FALSE)
    \/ \E ns \in FewNodeLists, x \in BOOLEAN : d = DictV(TRUE, ns, FALSE, <<>>, x)
    \/ \E es \in FewEdgeLists, x \in BOOLEAN : d = DictV(FALSE, <<>>, TRUE, es, x)
    \/ \E x \in BOOLEAN : d = DictV(FALSE, <<>>, FALSE, <<>>, x)

PipelineInit ==
    /\ pc = "input"
    /\ IsPipelineValue(data)
    /\ saveOk \in BOOLEAN
    /\ now = 0
    /\ cache = {}
    /\ runs = 0
    /\ books = <<"x", "y", "y">>
    /\ attempt = 0
    /\ requests = 0
    /\ outcomes = <<>>
    /\ waits = <<>>
    /\ msgs = <<>>
    /\ shown = NoShown
    /\ viz = NoViz
    /\ hist = <<>>
    /\ text = <<>>
    /\ parsed = NoParse

\* visualize_network(data) is called.
Visualize ==
    /\ pc = "input"
    /\ viz' = visualize_network(data, saveOk)
    /\ pc' = "visualized"
    /\ UNCHANGED <<now, cache, runs, books, attempt, requests, outcomes, waits, msgs, data,
                   saveOk, shown, hist, text, parsed>>

\* get_recommendations has returned data and lines 375-386 run.
ShowResult ==
    /\ pc = "input"
    /\ shown' = MainDisplay(data, saveOk)
    /\ pc' = "shown"
    /\ UNCHANGED <<now, cache, runs, books, attempt, requests, outcomes, waits, msgs, data,
                   saveOk, viz, hist, text, parsed>>

PipelineNext == Visualize \/ ShowResult

SpecPipeline == PipelineInit /\ [][PipelineNext]_vars

\* C4: a run ends in one of the four user-facing outcomes, never in an
\* unhandled exception, whatever value came back from the model response.
C4_NoUnhandledException ==
    pc = "shown" =>
        shown.outcome \in {"rendered", "no_response", "no_connections", "viz_failed"}

\* C7: a graph with a non-empty nodes collection and an empty or missing
\* edges collection ends in the no-connections message; visualize_network
\* is not invoked and nothing is rendered.
C7_ZeroEdgesRejected ==
    (/\ pc = "shown"
     /\ data.kind = "dict"
     /\ data.hasNodes
     /\ data.nodes # <<>>
     /\ (~data.hasEdges \/ data.edges = <<>>)) =>
        /\ shown.outcome = "no_connections"
        /\ ~shown.vizCalled

C7_Witness ==
    /\ pc = "shown"
    /\ data = DictV(TRUE, <<NodeOnlyId>>, FALSE, <<>>, FALSE)
    /\ shown.outcome = "no_connections"

AllMappings(entries) == \A i \in 1..Len(entries) : entries[i].isMap
WellShaped == Accepted(data) /\ AllMappings(data.nodes) /\ AllMappings(data.edges)

NonEmpty(v) == v # Absent /\ v # ""
KeptIdx == {i \in 1..Len(data.edges) :
               NonEmpty(data.edges[i].source) /\ NonEmpty(data.edges[i].target)}
Rank(i) == Cardinality({j \in KeptIdx : j <= i})

TierOf(g) == IF g = "Seed" THEN 50 ELSE IF g = "Level2" THEN 25 ELSE 35

NodeRest(i) ==
    /\ viz.nodes[i].size = TierOf(data.nodes[i].group)
    /\ viz.nodes[i].title[1] =
          (IF data.nodes[i].group = "Seed" THEN "Your Input Book"
           ELSE IF data.nodes[i].group = "Level2" THEN "Deep Recommendation"
           ELSE "Recommended Book")
    /\ viz.nodes[i].title[2] \in {data.nodes[i].title, viz.nodes[i].id, "Untitled"}
    /\ (data.nodes[i].author = Absent => viz.nodes[i].title[3] = "Unknown Author")
    /\ (data.nodes[i].author # Absent => viz.nodes[i].title[3] = data.nodes[i].author)
    /\ (data.nodes[i].reason = Absent =>
           viz.nodes[i].title[4] = "No recommendation reason provided.")
    /\ (data.nodes[i].reason # Absent => viz.nodes[i].title[4] = data.nodes[i].reason)
    /\ (data.nodes[i].summary = Absent => viz.nodes[i].title[5] = "No summary available.")
    /\ (data.nodes[i].summary # Absent => viz.nodes[i].title[5] = data.nodes[i].summary)
    /\ Len(viz.nodes[i].title) = 5

\* C9 as stated: id is the entry's id, or its title when id is absent or
\* empty; label is its title, or the string form of its id when title is
\* absent.
C9_AsStated ==
    (pc = "visualized" /\ WellShaped) =>
        /\ Len(viz.nodes) = Len(data.nodes)
        /\ \A i \in 1..Len(data.nodes) :
              /\ viz.nodes[i].id =
                    (IF NonEmpty(data.nodes[i].id) THEN data.nodes[i].id
                     ELSE data.nodes[i].title)
              /\ viz.nodes[i].label =
                    (IF data.nodes[i].title # Absent THEN data.nodes[i].title
                     ELSE Str(data.nodes[i].id))
              /\ NodeRest(i)

\* C9 (amended): every raw node entry yields a node whose label is its title
\* when that is present and non-empty, else the string form of its id
\* ("None" for an absent id); whose id is the entry's id when present and
\* non-empty, else that label; whose size is fixed by group alone (Seed 50 >
\* any other value 35 > Level2 25); and whose tooltip holds badge, title,
\* author, reason, summary in that order with the defaults for absent ones.
C9_NodeDefaults ==
    (pc = "visualized" /\ WellShaped) =>
        /\ Len(viz.nodes) = Len(data.nodes)
        /\ \A i \in 1..Len(data.nodes) :
              /\ viz.nodes[i].label =
                    (IF NonEmpty(data.nodes[i].title) THEN data.nodes[i].title
                     ELSE IF data.nodes[i].id = Absent THEN "None"
                     ELSE data.nodes[i].id)
              /\ viz.nodes[i].id =
                    (IF NonEmpty(data.nodes[i].id) THEN data.nodes[i].id
                     ELSE viz.nodes[i].label)
              /\ NodeRest(i)

C9_Witness ==
    /\ pc = "visualized"
    /\ data.nodes = <<NodeEntry(Absent, "T", Absent, Absent, Absent, Absent)>>
    /\ Len(viz.nodes) = 1
    /\ viz.nodes[1].id = "T"
    /\ viz.nodes[1].size = 35
    /\ viz.nodes[1].title[3] = "Unknown Author"

\* C10: a bare sequence is read as the nodes collection with no edges
\* ([{id: A}] gives one node and no edges); a value that is neither a
\* sequence nor a mapping with a nodes key gets None, and nothing is handed
\* to the renderer for it.
C10_ShapeClassification ==
    pc = "visualized" =>
        /\ (data.kind = "list" /\ AllMappings(data.nodes)) =>
              /\ Len(viz.nodes) = Len(data.nodes)
              /\ viz.edges = <<>>
              /\ viz.html = saveOk
              /\ ~viz.raised
        /\ (data = ListV(<<NodeOnlyId>>) => Len(viz.nodes) = 1 /\ viz.nodes[1].id = "A")
        /\ (~(data.kind = "list" \/ (data.kind = "dict" /\ data.hasNodes))) =>
              /\ ~viz.html
              /\ ~viz.raised
              /\ viz.nodes = <<>>
              /\ viz.edges = <<>>

C10_Witness ==
    /\ pc = "visualized"
    /\ data = ListV(<<NodeOnlyId>>)
    /\ Len(viz.nodes) = 1
    /\ viz.edges = <<>>
    /\ viz.html

\* ------------------------------------------------------------------------
\* extract_json (src/app.py 89-100) on texts over a small alphabet
\* ------------------------------------------------------------------------
\* A text is a sequence of characters.  The alphabet has the JSON
\* punctuation, one digit, one letter and the blank.
Alphabet == {"{", "}", "[", "]", "1", ",", ":", "\"", "a", " "}

\* Parsed JSON values.
JNum(n) == [t |-> "num", n |-> n, s |-> <<>>, keys |-> <<>>, items |-> <<>>]
JStr(s) == [t |-> "str", n |-> 0, s |-> s, keys |-> <<>>, items |-> <<>>]
JArr(items) == [t |-> "arr", n |-> 0, s |-> <<>>, keys |-> <<>>, items |-> items]
JObj(keys, items) == [t |-> "obj", n |-> 0, s |-> <<>>, keys |-> keys, items |-> items]

Fail == [ok |-> FALSE, val |-> JNum(0), next |-> 0]
Done(v, i) == [ok |-> TRUE, val |-> v, next |-> i]

\* First position at or after i that does not hold a blank.
RECURSIVE SkipWs(_, _)
SkipWs(t, i) == IF i <= Len(t) /\ t[i] = " " THEN SkipWs(t, i + 1) ELSE i

\* Last position of the run of digits starting at i.
RECURSIVE DigitsEnd(_, _)
DigitsEnd(t, i) == IF i + 1 <= Len(t) /\ t[i + 1] = "1" THEN DigitsEnd(t, i + 1) ELSE i

\* Value of a run of k digits 1.
RECURSIVE Ones(_)
Ones(k) == IF k = 0 THEN 0 ELSE 10 * Ones(k - 1) + 1

\* Position of the quote closing the string opened at i, or 0.
ClosingQuote(t, i) ==
    IF \E j \in (i + 1)..Len(t) : t[j] = "\""
    THEN CHOOSE j \in (i + 1)..Len(t) : t[j] = "\"" /\ \A k \in (i + 1)..(j - 1) : t[k] # "\""
    ELSE 0

\* dict[key] = value: a repeated key keeps its place and takes the new value.
Put(obj, k, v) ==
    IF \E i \in 1..Len(obj.keys) : obj.keys[i] = k
    THEN JObj(obj.keys, [i \in 1..Len(obj.items) |-> IF obj.keys[i] = k THEN v ELSE obj.items[i]])
    ELSE JObj(Append(obj.keys, k), Append(obj.items, v))

RECURSIVE ParseValue(_, _), ParseElems(_, _, _), ParseMembers(_, _, _)

\* The JSON value starting at position i (blanks skipped by the caller).
ParseValue(t, i) ==
    IF i > Len(t) THEN Fail
    ELSE IF t[i] = "1" THEN Done(JNum(Ones(DigitsEnd(t, i) - i + 1)), DigitsEnd(t, i) + 1)
    ELSE IF t[i] = "\"" THEN
        (IF ClosingQuote(t, i) = 0 THEN Fail
         ELSE Done(JStr(SubSeq(t, i + 1, ClosingQuote(t, i) - 1)), ClosingQuote(t, i) + 1))
    ELSE IF t[i] = "[" THEN
        (LET j == SkipWs(t, i + 1)
         IN  IF j <= Len(t) /\ t[j] = "]" THEN Done(JArr(<<>>), j + 1)
             ELSE ParseElems(t, j, <<>>))
    ELSE IF t[i] = "{" THEN
        (LET j == SkipWs(t, i + 1)
         IN  IF j <= Len(t) /\ t[j] = "}" THEN Done(JObj(<<>>, <<>>), j + 1)
             ELSE ParseMembers(t, j, JObj(<<>>, <<>>)))
    ELSE Fail

\* The elements of an array from position i on, acc being those read so far.
ParseElems(t, i, acc) ==
    LET v == ParseValue(t, i)
        j == SkipWs(t, v.next)
    IN  IF ~v.ok \/ j > Len(t) THEN Fail
        ELSE IF t[j] = "]" THEN Done(JArr(Append(acc, v.val)), j + 1)
        ELSE IF t[j] = "," THEN ParseElems(t, SkipWs(t, j + 1), Append(acc, v.val))
        ELSE Fail

\* The members of an object from position i on, acc being the object so far.
ParseMembers(t, i, acc) ==
    LET k == IF i <= Len(t) /\ t[i] = "\"" THEN ParseValue(t, i) ELSE Fail
        c == SkipWs(t, k.next)
        v == IF k.ok /\ c <= Len(t) /\ t[c] = ":" THEN ParseValue(t, SkipWs(t, c + 1)) ELSE Fail
        j == SkipWs(t, v.next)
    IN  IF ~v.ok \/ j > Len(t) THEN Fail
        ELSE IF t[j] = "}" THEN Done(Put(acc, k.val.s, v.val), j + 1)
        ELSE IF t[j] = "," THEN ParseMembers(t, SkipWs(t, j + 1), Put(acc, k.val.s, v.val))
        ELSE Fail

\* json.loads(t): one value surrounded by blanks only; anything else is a
\* JSONDecodeError.
Loads(t) ==
    LET v == ParseValue(t, SkipWs(t, 1))
    IN  IF v.ok /\ SkipWs(t, v.next) = Len(t) + 1
        THEN [ok |-> TRUE, val |-> v.val, err |-> "none"]
        ELSE [ok |-> FALSE, val |-> JNum(0), err |-> "JSONDecodeError"]

\* Where the alternative \{[\s\S]*\} or \[[\s\S]*\] can start at i.
Opens(t, i) ==
    \/ t[i] = "{" /\ \E j \in (i + 1)..Len(t) : t[j] = "}"
    \/ t[i] = "[" /\ \E j \in (i + 1)..Len(t) : t[j] = "]"

Closer(c) == IF c = "{" THEN "}" ELSE "]"

\* Variant: a lazy match, ending at the first closing character.
MatchEnd_Lazy(t, i) ==
    CHOOSE j \in (i + 1)..Len(t) :
        t[j] = Closer(t[i]) /\ \A k \in (i + 1)..(j - 1) : t[k] # Closer(t[i])

\* End of the greedy match that starts at i: the last closing character.
MatchEnd(t, i) ==
    CHOOSE j \in (i + 1)..Len(t) :
        t[j] = Closer(t[i]) /\ \A k \in (j + 1)..Len(t) : t[k] # Closer(t[i])

\* re.search(r'(\{[\s\S]*\}|\[[\s\S]*\])', t): leftmost start, greedy end.
Search(t) ==
    IF \E i \in 1..Len(t) : Opens(t, i)
    THEN LET i == CHOOSE i \in 1..Len(t) : Opens(t, i) /\ \A k \in 1..(i - 1) : ~Opens(t, k)
         IN  [matched |-> TRUE, group |-> SubSeq(t, i, MatchEnd(t, i))]
    ELSE [matched |-> FALSE, group |-> <<>>]

NoJson == [raised |-> FALSE, found |-> FALSE, val |-> JNum(0)]
Found(v) == [raised |-> FALSE, found |-> TRUE, val |-> v]

\* extract_json(t): found says a value is returned (else None); raised says
\* an exception leaves the function.
extract_json(t) ==
    LET direct == Loads(t)
        m == Search(t)
        inner == Loads(m.group)
    IN  IF direct.ok THEN Found(direct.val)
        ELSE IF direct.err # "JSONDecodeError" THEN [NoJson EXCEPT !.raised = TRUE]
        ELSE IF m.matched /\ inner.ok THEN Found(inner.val)
        ELSE NoJson

ProseChars == {"a", " ", "}", "[", "\""}
Docs == {<<"{", "\"", "a", "\"", ":", "1", "}">>, <<"[", "[", "1", "]", ",", "1", "]">>,
         <<"{", "}">>, <<"[", "1", "]">>}

\* Texts handed to extract_json: the documents wrapped in prose, and every
\* short text over the alphabet.
IsText(t) ==
    \/ \E kp \in 0..MaxProse, kq \in 0..MaxProse :
          \E p \in [1..kp -> ProseChars], q \in [1..kq -> ProseChars], d \in Docs :
              t = p \o d \o q
    \/ \E k \in 0..MaxLen : t \in [1..k -> Alphabet]

ExtractInit ==
    /\ pc = "text"
    /\ IsText(text)
    /\ parsed = NoJson
    /\ now = 0
    /\ cache = {}
    /\ runs = 0
    /\ books = <<"x", "y", "y">>
    /\ attempt = 0
    /\ requests = 0
    /\ outcomes = <<>>
    /\ waits = <<>>
    /\ msgs = <<>>
    /\ data = NoneV
    /\ saveOk = TRUE
    /\ shown = NoShown
    /\ viz = NoViz
    /\ hist = <<>>

\* extract_json(text) is called.
Extract ==
    /\ pc = "text"
    /\ parsed' = extract_json(text)
    /\ pc' = "extracted"
    /\ UNCHANGED <<now, cache, runs, books, attempt, requests, outcomes, waits, msgs, data,
                   saveOk, shown, viz, hist, text>>

SpecExtract == ExtractInit /\ [][Extract]_vars

Part(i, j) == SubSeq(text, i, j)
IsDoc(t) == Loads(t).ok /\ Loads(t).val.t \in {"arr", "obj"}
NoDocIn(t) == \A i \in 1..Len(t) : \A j \in i..Len(t) : ~IsDoc(SubSeq(t, i, j))
Prose(t) == t = <<>> \/ (~Loads(t).ok /\ NoDocIn(t))
Maximal(i, j) ==
    \A k \in 1..i : \A l \in j..Len(text) :
        (k # i \/ l # j) => ~IsDoc(SubSeq(text, k, l))
Has(t, cs) == \E k \in 1..Len(t) : t[k] \in cs
NoDocInside == NoDocIn(text)

====
